---- MODULE Spec2Model ----
(***************************************************************************)
(* Model of osmtools (src/main.rs): the two relation predicates, the       *)
(* dependency-closing load, the boundary statistics report and the JSONL   *)
(* emitter, with the failures of the input file and of the output sink.    *)
(***************************************************************************)
EXTENDS Integers, Sequences, FiniteSets, TLC

VARIABLES
    cmd,            \* cli.command: "stats" or "jsonl" (no subcommand)
    source,         \* the objects of the PBF file, in file order
    pc,             \* position of main
    deps,           \* get_objs_and_deps: ids wanted as dependencies
    objects,        \* get_objs_and_deps: id -> object collected so far
    finished,       \* get_objs_and_deps: loop flag
    discovered,     \* ids in the order of their first insertion into objects
    run,            \* 1: the load of main, 2: a second load of the same input
    first,          \* result of the first load, kept when a second one runs
    relations,      \* the BTreeMap returned by load_relations
    report,         \* to_stats: the sorted (boundary, count) entries left to write
    todo,           \* to_jsonl: the filtered values left to serialize
    emitted,        \* lines handed to the writer by writeln!, in order
    buffer,         \* to_jsonl: lines held by the BufWriter
    sink,           \* lines that reached the output file / stdout
    ret,            \* result of main: "none", "ok", "err"
    cause,          \* why ret = "err": "none", "io"
    probe,          \* predicate evaluation: the object under evaluation
    verdict         \* predicate evaluation: <<>> or <<all, target>>

vars == <<cmd, source, pc, deps, objects, finished, discovered, run, first,
          relations, report, todo, emitted, buffer, sink, ret, cause,
          probe, verdict>>

(***************************************************************************)
(* Bounds of the model.                                                    *)
(***************************************************************************)
MaxRel == 3

(***************************************************************************)
(* OSM objects.  An id is <<kind, n>>; OsmId orders by kind (Node < Way <  *)
(* Relation) and then by number.  Tags are a function from keys to values. *)
(***************************************************************************)
Node == 0
Way == 1
Relation == 2

NoTags == [k \in {} |-> ""]

Obj(id, tags, refs) == [id |-> id, tags |-> tags, refs |-> refs]

is_relation(obj) == obj.id[1] = Relation

IdLess(a, b) == a[1] < b[1] \/ (a[1] = b[1] /\ a[2] < b[2])

TARGET_BOUNDARY_TYPES ==
    {"administrative", "state_border", "country_border", "state border"}

\* variant: any admin_level value is accepted
filter_all_any_level(obj) ==
    /\ is_relation(obj)
    /\ "name" \in DOMAIN obj.tags
    /\ "admin_level" \in DOMAIN obj.tags

filter_all_relations(obj) ==
    /\ is_relation(obj)
    /\ "name" \in DOMAIN obj.tags
    /\ "admin_level" \in DOMAIN obj.tags
    /\ obj.tags["admin_level"] \in {"2", "4", "6", "7", "8"}

\* variant: the boundary test alone, without the broad predicate
filter_target_boundary_only(obj) ==
    /\ "boundary" \in DOMAIN obj.tags
    /\ obj.tags["boundary"] \in TARGET_BOUNDARY_TYPES

filter_target_relations(obj) ==
    /\ filter_all_relations(obj)
    /\ "boundary" \in DOMAIN obj.tags
    /\ obj.tags["boundary"] \in TARGET_BOUNDARY_TYPES

(***************************************************************************)
(* The input files of the model.  Node 1 and way 1 are in the file; way 1  *)
(* carries boundary tags and has nodes 1 and 2; node 2 and way 9 are in no *)
(* file (references to them dangle).  Each relation 1..MaxRel has one of   *)
(* the tag maps below and one member out of: way 1, way 9, itself, its     *)
(* peer relation.                                                          *)
(***************************************************************************)
N1 == <<Node, 1>>
N2 == <<Node, 2>>
W1 == <<Way, 1>>
W9 == <<Way, 9>>

RelIds == {<<Relation, i>> : i \in 1..MaxRel}

\* relations 1 and 2 are each other's peer; a later relation's peer is the one before
Peer(id) == <<Relation, IF id[2] = 1 THEN 2 ELSE id[2] - 1>>

TagMaps ==
    { [name |-> "X", admin_level |-> "4", boundary |-> "administrative"],
      [name |-> "X", admin_level |-> "2", boundary |-> "historic"],
      [name |-> "X", admin_level |-> "8"],
      [name |-> "X", admin_level |-> "10", boundary |-> "administrative"] }

MemberKinds == {"way", "absent", "self", "peer"}

Members(id, kind) ==
    CASE kind = "way" -> {W1}
      [] kind = "absent" -> {W9}
      [] kind = "self" -> {id}
      [] kind = "peer" -> {Peer(id)}

FixedObjects ==
    { Obj(N1, NoTags, {}),
      Obj(W1, [name |-> "X", admin_level |-> "4", boundary |-> "administrative"],
          {N1, N2}) }

\* The file holds nodes, then ways, then relations, each by ascending id.
RECURSIVE SortById(_)
SortById(S) ==
    IF S = {} THEN <<>>
    ELSE LET m == CHOOSE x \in S : \A y \in S : y = x \/ IdLess(x.id, y.id)
         IN  <<m>> \o SortById(S \ {m})

FilesWith(maps) ==
    { SortById(FixedObjects \cup {Obj(id, t[id], Members(id, m[id])) : id \in RelIds}) :
        t \in [RelIds -> maps], m \in [RelIds -> MemberKinds] }

Files == FilesWith(TagMaps)

\* files whose relations either satisfy both predicates or neither
PlainFiles == FilesWith({t \in TagMaps : t["admin_level"] \in {"4", "10"}})

Range(s) == {s[i] : i \in 1..Len(s)}

SourceIds == {o.id : o \in Range(source)}

(***************************************************************************)
(* BTreeMap<OsmId, OsmObj>: a function from ids to objects; keys() and     *)
(* values() iterate by ascending id.                                       *)
(***************************************************************************)
EmptyMap == [k \in {} |-> 0]

Insert(m, k, v) == [x \in DOMAIN m \cup {k} |-> IF x = k THEN v ELSE m[x]]

RECURSIVE SortIds(_)
SortIds(S) ==
    IF S = {} THEN <<>>
    ELSE LET m == CHOOSE x \in S : \A y \in S : y = x \/ IdLess(x, y)
         IN  <<m>> \o SortIds(S \ {m})

\* variant: a map that iterates in insertion order
KeysByInsertion(m) == SelectSeq(discovered, LAMBDA k : k \in DOMAIN m)

Keys(m) == SortIds(DOMAIN m)

Values(m) == [i \in 1..Len(Keys(m)) |-> m[Keys(m)[i]]]

(***************************************************************************)
(* main (lines 57-64): the stats subcommand loads with the narrow          *)
(* predicate, the default mode with the broad one.                         *)
(***************************************************************************)
pred(obj) ==
    IF cmd = "stats" THEN filter_target_relations(obj)
    ELSE filter_all_relations(obj)

(***************************************************************************)
(* OsmPbfReader::get_objs_and_deps(pred): rescan the file until a pass     *)
(* adds no new dependency.  An object is taken when it is wanted as a      *)
(* dependency or satisfies pred; its members (a relation's refs, a way's   *)
(* nodes) not yet collected become wanted.                                 *)
(***************************************************************************)
Wanted(st, obj) == obj.id \in st.deps \/ pred(obj)

\* variant: the nodes of a way are not followed
NewDepsOfRelations(st, obj) ==
    IF is_relation(obj) THEN {r \in obj.refs : r \notin DOMAIN st.objects} ELSE {}

NewDeps(st, obj) == {r \in obj.refs : r \notin DOMAIN st.objects}

\* variant: the loop goes on while a wanted id is not collected
TakeWaiting(st, obj) ==
    [ deps |-> st.deps \cup NewDeps(st, obj),
      objects |-> Insert(st.objects, obj.id, obj),
      finished |-> st.finished
                   /\ (st.deps \cup NewDeps(st, obj) \subseteq DOMAIN st.objects \cup {obj.id}),
      discovered |-> IF obj.id \in DOMAIN st.objects THEN st.discovered
                     ELSE Append(st.discovered, obj.id) ]

Take(st, obj) ==
    [ deps |-> st.deps \cup NewDeps(st, obj),
      objects |-> Insert(st.objects, obj.id, obj),
      finished |-> st.finished /\ (NewDeps(st, obj) \subseteq st.deps),
      discovered |-> IF obj.id \in DOMAIN st.objects THEN st.discovered
                     ELSE Append(st.discovered, obj.id) ]

ScanObj(st, obj) == IF Wanted(st, obj) THEN Take(st, obj) ELSE st

RECURSIVE ScanFrom(_, _)
ScanFrom(st, i) ==
    IF i > Len(source) THEN st
    ELSE CHOOSE r \in {ScanFrom(next, i + 1) : next \in {ScanObj(st, source[i])}} : TRUE

Pass(st) == ScanFrom([st EXCEPT !.finished = TRUE], 1)

LoaderState ==
    [deps |-> deps, objects |-> objects, finished |-> finished,
     discovered |-> discovered]

(***************************************************************************)
(* load_relations: open the file, run get_objs_and_deps, return the map.   *)
(***************************************************************************)
Idle == Obj(N1, NoTags, {})

Init ==
    /\ cmd \in {"stats", "jsonl"}
    /\ source \in Files
    /\ pc = "start"
    /\ deps = {}
    /\ objects = EmptyMap
    /\ finished = FALSE
    /\ discovered = <<>>
    /\ run = 1
    /\ first = EmptyMap
    /\ relations = EmptyMap
    /\ report = <<>>
    /\ todo = <<>>
    /\ emitted = <<>>
    /\ buffer = <<>>
    /\ sink = <<>>
    /\ ret = "none"
    /\ cause = "none"
    /\ probe = Idle
    /\ verdict = <<>>

Fail ==
    /\ ret' = "err"
    /\ cause' = "io"
    /\ pc' = "exit"

\* File::open and OsmPbfReader::new succeed.
Open ==
    /\ pc = "start"
    /\ pc' = "scan"
    /\ UNCHANGED <<cmd, source, deps, objects, finished, discovered, run, first,
                   relations, report, todo, emitted, buffer, sink, ret, cause,
                   probe, verdict>>

\* File::open fails: `?` returns the error to main.
OpenFail ==
    /\ pc = "start"
    /\ Fail
    /\ UNCHANGED <<cmd, source, deps, objects, finished, discovered, run, first,
                   relations, report, todo, emitted, buffer, sink, probe, verdict>>

\* One pass of the while !finished loop over the whole file.
ScanPass ==
    /\ pc = "scan"
    /\ ~finished
    /\ \E st \in {Pass(LoaderState)} :
          /\ deps' = st.deps
          /\ objects' = st.objects
          /\ finished' = st.finished
          /\ discovered' = st.discovered
    /\ UNCHANGED <<cmd, source, pc, run, first, relations, report, todo, emitted,
                   buffer, sink, ret, cause, probe, verdict>>

\* rewind or the decoding of a blob fails during a pass.
ScanFail ==
    /\ pc = "scan"
    /\ ~finished
    /\ Fail
    /\ UNCHANGED <<cmd, source, deps, objects, finished, discovered, run, first,
                   relations, report, todo, emitted, buffer, sink, probe, verdict>>

\* variant: a wanted id that was never found is an error
LoadReturnStrict ==
    /\ pc = "scan"
    /\ finished
    /\ IF deps \subseteq DOMAIN objects
       THEN /\ relations' = objects
            /\ pc' = IF run = 1 THEN "loaded" ELSE "reloaded"
            /\ UNCHANGED <<ret, cause>>
       ELSE /\ ret' = "err"
            /\ cause' = "unresolved"
            /\ pc' = "exit"
            /\ UNCHANGED relations
    /\ UNCHANGED <<cmd, source, deps, objects, finished, discovered, run, first,
                   report, todo, emitted, buffer, sink, probe, verdict>>

\* The loop ends; load_relations returns Ok(relations).
LoadReturn ==
    /\ pc = "scan"
    /\ finished
    /\ relations' = objects
    /\ pc' = IF run = 1 THEN "loaded" ELSE "reloaded"
    /\ UNCHANGED <<cmd, source, deps, objects, finished, discovered, run, first,
                   report, todo, emitted, buffer, sink, ret, cause, probe, verdict>>

\* load_relations called a second time on the same file with the same predicate.
Reload ==
    /\ pc = "loaded"
    /\ run = 1
    /\ first' = relations
    /\ run' = 2
    /\ deps' = {}
    /\ objects' = EmptyMap
    /\ finished' = FALSE
    /\ discovered' = <<>>
    /\ relations' = EmptyMap
    /\ pc' = "scan"
    /\ UNCHANGED <<cmd, source, report, todo, emitted, buffer, sink, ret, cause,
                   probe, verdict>>

(***************************************************************************)
(* to_stats: count the boundary values of the broad-predicate entries that *)
(* have a boundary tag, sort the HashMap's entries by count descending     *)
(* (stable, over the HashMap's arbitrary iteration order), write a line    *)
(* per entry.                                                              *)
(***************************************************************************)
HasBoundary(obj) == "boundary" \in DOMAIN obj.tags

\* variant: only the narrow-predicate entries are counted
CountedTargets(obj) == filter_target_relations(obj)

Counted(obj) == filter_all_relations(obj) /\ HasBoundary(obj)

boundary_types(rel) ==
    LET counted == {k \in DOMAIN rel : Counted(rel[k])}
    IN  [b \in {rel[k].tags["boundary"] : k \in counted} |->
            Cardinality({k \in counted : rel[k].tags["boundary"] = b})]

\* HashMap::iter: the entries in some order.
IterOrders(m) ==
    {s \in [1..Cardinality(DOMAIN m) -> DOMAIN m] : Range(s) = DOMAIN m}

Entries(m, order) == [i \in 1..Len(order) |-> <<order[i], m[order[i]]>>]

\* variant: cmp(&a.1, &b.1), ascending
BeforeAscending(a, b) == a[2] < b[2]

\* cmp of sorted_by: Ord::cmp(&b.1, &a.1), i.e. a goes first when its count is greater.
Before(a, b) == a[2] > b[2]

\* stable insertion of e behind every entry that is not after it
RECURSIVE InsertSorted(_, _)
InsertSorted(s, e) ==
    IF s = <<>> THEN <<e>>
    ELSE IF Before(e, s[Len(s)]) THEN Append(InsertSorted(SubSeq(s, 1, Len(s) - 1), e), s[Len(s)])
    ELSE Append(s, e)

RECURSIVE sorted_by(_)
sorted_by(s) ==
    IF s = <<>> THEN <<>>
    ELSE InsertSorted(sorted_by(SubSeq(s, 1, Len(s) - 1)), s[Len(s)])

\* lines 95-105: tally, then the sorted iterator
StatsTally ==
    /\ pc = "loaded"
    /\ cmd = "stats"
    /\ \E order \in IterOrders(boundary_types(relations)) :
          report' = sorted_by(Entries(boundary_types(relations), order))
    /\ pc' = "stats"
    /\ UNCHANGED <<cmd, source, deps, objects, finished, discovered, run, first,
                   relations, todo, emitted, buffer, sink, ret, cause, probe, verdict>>

\* line 106: writeln!(out, ...) succeeds
StatsWrite ==
    /\ pc = "stats"
    /\ report # <<>>
    /\ emitted' = Append(emitted, Head(report))
    /\ sink' = Append(sink, Head(report))
    /\ report' = Tail(report)
    /\ UNCHANGED <<cmd, source, pc, deps, objects, finished, discovered, run, first,
                   relations, todo, buffer, ret, cause, probe, verdict>>

\* line 106: writeln!(out, ...) fails and `?` returns the error
StatsWriteFail ==
    /\ pc = "stats"
    /\ report # <<>>
    /\ Fail
    /\ UNCHANGED <<cmd, source, deps, objects, finished, discovered, run, first,
                   relations, report, todo, emitted, buffer, sink, probe, verdict>>

\* line 109: Ok(())
StatsReturn ==
    /\ pc = "stats"
    /\ report = <<>>
    /\ ret' = "ok"
    /\ pc' = "exit"
    /\ UNCHANGED <<cmd, source, deps, objects, finished, discovered, run, first,
                   relations, report, todo, emitted, buffer, sink, cause, probe, verdict>>

(***************************************************************************)
(* to_jsonl: a BufWriter around the sink; one writeln! per entry of the    *)
(* map that satisfies the narrow predicate; Ok(()) and the BufWriter is    *)
(* dropped.  A line is the id of the object it serializes.  A write into   *)
(* the BufWriter reaches the sink only when the line does not fit into the *)
(* spare capacity; the drop flushes what is buffered and ignores a failure.*)
(***************************************************************************)
\* variant: the broad predicate filters the lines
TargetsBroad(rel) == SelectSeq(Values(rel), filter_all_relations)

Targets(rel) == SelectSeq(Values(rel), filter_target_relations)

Prefixes(s) == {SubSeq(s, 1, n) : n \in 0..Len(s)}

\* lines 114-118
JsonlStart ==
    /\ pc = "loaded"
    /\ cmd = "jsonl"
    /\ todo' = Targets(relations)
    /\ buffer' = <<>>
    /\ pc' = "jsonl"
    /\ UNCHANGED <<cmd, source, deps, objects, finished, discovered, run, first,
                   relations, report, emitted, sink, ret, cause, probe, verdict>>

\* lines 120-121, the line fits into the buffer: no write to the sink
JsonlBuffered ==
    /\ pc = "jsonl"
    /\ todo # <<>>
    /\ buffer' = Append(buffer, Head(todo).id)
    /\ emitted' = Append(emitted, Head(todo).id)
    /\ todo' = Tail(todo)
    /\ UNCHANGED <<cmd, source, pc, deps, objects, finished, discovered, run, first,
                   relations, report, sink, ret, cause, probe, verdict>>

\* lines 120-121, the line does not fit: the buffer is flushed to the sink, and
\* the line is buffered, or written through when it is as long as the capacity
JsonlFlushed ==
    /\ pc = "jsonl"
    /\ todo # <<>>
    /\ \/ /\ buffer # <<>>
          /\ sink' = sink \o buffer
          /\ buffer' = <<Head(todo).id>>
       \/ /\ sink' = sink \o buffer \o <<Head(todo).id>>
          /\ buffer' = <<>>
    /\ emitted' = Append(emitted, Head(todo).id)
    /\ todo' = Tail(todo)
    /\ UNCHANGED <<cmd, source, pc, deps, objects, finished, discovered, run, first,
                   relations, report, ret, cause, probe, verdict>>

\* lines 120-121, a write to the sink fails: `?` returns the error; the drop of
\* the BufWriter may still write buffered lines
JsonlWriteFail ==
    /\ pc = "jsonl"
    /\ todo # <<>>
    /\ \E written \in Prefixes(buffer) : sink' = sink \o written
    /\ buffer' = <<>>
    /\ Fail
    /\ UNCHANGED <<cmd, source, deps, objects, finished, discovered, run, first,
                   relations, report, todo, emitted, probe, verdict>>

\* line 124: Ok(()); dropping the BufWriter flushes the buffer, a failure of
\* that flush is ignored
JsonlReturn ==
    /\ pc = "jsonl"
    /\ todo = <<>>
    /\ \E written \in Prefixes(buffer) : sink' = sink \o written
    /\ buffer' = <<>>
    /\ ret' = "ok"
    /\ pc' = "exit"
    /\ UNCHANGED <<cmd, source, deps, objects, finished, discovered, run, first,
                   relations, report, todo, emitted, cause, probe, verdict>>

Next ==
    \/ Open
    \/ OpenFail
    \/ ScanPass
    \/ ScanFail
    \/ LoadReturn
    \/ Reload
    \/ StatsTally
    \/ StatsWrite
    \/ StatsWriteFail
    \/ StatsReturn
    \/ JsonlStart
    \/ JsonlBuffered
    \/ JsonlFlushed
    \/ JsonlWriteFail
    \/ JsonlReturn

Spec == Init /\ [][Next]_vars

\* main is one sequential thread: it goes on as long as no operation fails.
Progress ==
    \/ Open
    \/ ScanPass
    \/ LoadReturn
    \/ StatsTally
    \/ StatsWrite
    \/ StatsReturn
    \/ JsonlStart
    \/ JsonlBuffered
    \/ JsonlReturn

\* The same program with the command line and the input file given in a first
\* step, and main's steps taken as long as one is possible.
Boot ==
    /\ cmd = "jsonl"
    /\ source = <<>>
    /\ pc = "boot"
    /\ deps = {}
    /\ objects = EmptyMap
    /\ finished = FALSE
    /\ discovered = <<>>
    /\ run = 1
    /\ first = EmptyMap
    /\ relations = EmptyMap
    /\ report = <<>>
    /\ todo = <<>>
    /\ emitted = <<>>
    /\ buffer = <<>>
    /\ sink = <<>>
    /\ ret = "none"
    /\ cause = "none"
    /\ probe = Idle
    /\ verdict = <<>>

Invoke ==
    /\ pc = "boot"
    /\ cmd' \in {"stats", "jsonl"}
    /\ source' \in PlainFiles
    /\ pc' = "start"
    /\ UNCHANGED <<deps, objects, finished, discovered, run, first, relations,
                   report, todo, emitted, buffer, sink, ret, cause, probe, verdict>>

FairNext == Invoke \/ Next

FairSpec == Boot /\ [][FairNext]_vars /\ WF_vars(Progress)

(***************************************************************************)
(* The predicates on their own: an object of any kind with any of the tag  *)
(* maps below is evaluated by both.                                        *)
(***************************************************************************)
NameValues == {{}, {""}, {"X"}}

LevelValues == {{}, {""}, {"1"}, {"2"}, {"4"}, {"6"}, {"7"}, {"8"}, {"10"}}

BoundaryValues ==
    {{}, {""}, {"historic"}, {"Administrative"}} \cup {{b} : b \in TARGET_BOUNDARY_TYPES}

\* n, a, b: the values of name, admin_level, boundary, each {} (absent) or {v}
MkTags(n, a, b) ==
    LET val == [name |-> n, admin_level |-> a, boundary |-> b]
    IN  [k \in {x \in DOMAIN val : val[x] # {}} |-> CHOOSE v \in val[k] : TRUE]

Probes ==
    { Obj(<<kind, 1>>, MkTags(n, a, b), {}) :
        kind \in {Node, Way, Relation},
        n \in NameValues, a \in LevelValues, b \in BoundaryValues }

PredInit ==
    /\ probe \in Probes
    /\ verdict = <<>>
    /\ cmd = "jsonl"
    /\ source = <<>>
    /\ pc = "predicates"
    /\ deps = {}
    /\ objects = EmptyMap
    /\ finished = FALSE
    /\ discovered = <<>>
    /\ run = 1
    /\ first = EmptyMap
    /\ relations = EmptyMap
    /\ report = <<>>
    /\ todo = <<>>
    /\ emitted = <<>>
    /\ buffer = <<>>
    /\ sink = <<>>
    /\ ret = "none"
    /\ cause = "none"

Evaluate ==
    /\ pc = "predicates"
    /\ verdict = <<>>
    /\ verdict' = <<filter_all_relations(probe), filter_target_relations(probe)>>
    /\ UNCHANGED <<cmd, source, pc, deps, objects, finished, discovered, run, first,
                   relations, report, todo, emitted, buffer, sink, ret, cause, probe>>

PredNext == Evaluate

PredSpec == PredInit /\ [][PredNext]_vars

(***************************************************************************)
(* Properties.                                                             *)
(***************************************************************************)
ObjAt(id) == CHOOSE o \in Range(source) : o.id = id

Roots == {o.id : o \in {x \in Range(source) : pred(x)}}

\* the ids of the file reachable from S through member references
RECURSIVE ReachFrom(_)
ReachFrom(S) ==
    LET more == {r \in SourceIds : \E k \in S : r \in ObjAt(k).refs}
    IN  IF more \subseteq S THEN S ELSE ReachFrom(S \cup more)

\* load_relations has returned Ok and `relations` holds its result
Returned ==
    \/ pc \in {"loaded", "reloaded", "stats", "jsonl"}
    \/ (pc = "exit" /\ ret = "ok")

Ascending(ids) == \A i, j \in 1..Len(ids) : i < j => IdLess(ids[i], ids[j])

IsPrefix(s, t) == Len(s) <= Len(t) /\ s = SubSeq(t, 1, Len(s))

RECURSIVE SumCounts(_)
SumCounts(s) == IF s = <<>> THEN 0 ELSE Head(s)[2] + SumCounts(Tail(s))

Evaluated == verdict # <<>>

HasTag(obj, k) == k \in DOMAIN obj.tags

\* C1: for every object, whenever the narrow predicate (filter_target_relations)
\* is true the broad predicate (filter_all_relations) is true as well.
C1_TargetImpliesAll == Evaluated => (verdict[2] => verdict[1])

C1_Witness == Evaluated /\ verdict[2] /\ verdict[1]

\* C2 as stated: the broad predicate is true exactly for a relation with a
\* non-empty name tag and an admin_level tag among 2, 4, 6, 7, 8.
C2_NonEmptyName ==
    Evaluated =>
        (verdict[1] <=>
            /\ probe.id[1] = Relation
            /\ HasTag(probe, "name") /\ probe.tags["name"] # ""
            /\ HasTag(probe, "admin_level")
            /\ probe.tags["admin_level"] \in {"2", "4", "6", "7", "8"})

\* C2 amended: the broad predicate is true exactly for a relation that has a
\* name tag (whatever its value, the empty string included) and an admin_level
\* tag among 2, 4, 6, 7, 8; a relation with admin_level 10 is no candidate.
C2_NamePresent ==
    Evaluated =>
        /\ (verdict[1] <=>
              /\ probe.id[1] = Relation
              /\ HasTag(probe, "name")
              /\ HasTag(probe, "admin_level")
              /\ probe.tags["admin_level"] \in {"2", "4", "6", "7", "8"})
        /\ (HasTag(probe, "admin_level") /\ probe.tags["admin_level"] = "10"
              => ~verdict[1])

C2_Witness ==
    /\ Evaluated
    /\ verdict[1]
    /\ probe.tags["name"] = ""

\* C3: the keys of the map load_relations returns are exactly the objects of the
\* file that satisfy the predicate together with every object of the file
\* reachable from them through member references, to any depth.
C3_ClosureExact == Returned => DOMAIN relations = ReachFrom(Roots)

C3_Witness ==
    /\ Returned
    /\ N1 \in DOMAIN relations
    /\ \E k \in DOMAIN relations : is_relation(relations[k]) /\ k \notin Roots
    /\ \E k \in SourceIds : k \notin DOMAIN relations

\* C4: a member id that is in no object of the file makes neither the load nor
\* the emission fail (main fails on an input/output failure only); the map
\* holds every object that satisfies the predicate, dangling members or not,
\* and has no entry for an id that is not in the file.
C4_DanglingTolerated ==
    /\ (ret = "err" => cause = "io")
    /\ (Returned =>
          /\ Roots \subseteq DOMAIN relations
          /\ \A k \in DOMAIN relations :
                \A r \in relations[k].refs : r \notin SourceIds => r \notin DOMAIN relations)

C4_Witness ==
    /\ cmd = "jsonl"
    /\ ret = "ok"
    /\ \E i \in 1..Len(emitted) :
          /\ W9 \in relations[emitted[i]].refs
          /\ W9 \notin DOMAIN relations

\* C5 as stated: the counts to_stats writes sum to the number of entries of the
\* map that satisfy the broad predicate.
C5_SumIsCandidates ==
    (cmd = "stats" /\ ret = "ok") =>
        SumCounts(emitted) =
            Cardinality({k \in DOMAIN relations : filter_all_relations(relations[k])})

\* C5 amended: the counts to_stats writes sum to the number of entries of the
\* map that satisfy the broad predicate and have a boundary tag, the entries
\* that are in the map only as dependencies of a root included.
C5_SumIsCandidatesWithBoundary ==
    (cmd = "stats" /\ ret = "ok") =>
        SumCounts(emitted) =
            Cardinality({k \in DOMAIN relations :
                            /\ filter_all_relations(relations[k])
                            /\ HasTag(relations[k], "boundary")})

C5_Witness ==
    /\ cmd = "stats"
    /\ ret = "ok"
    /\ \E k \in DOMAIN relations :
          /\ k \notin Roots
          /\ filter_all_relations(relations[k])
          /\ HasTag(relations[k], "boundary")
    /\ \E k \in DOMAIN relations :
          /\ filter_all_relations(relations[k])
          /\ ~HasTag(relations[k], "boundary")

\* C6: to_jsonl returns Ok only if every line it produced has reached the sink.
C6_OkImpliesFlushed == (cmd = "jsonl" /\ ret = "ok") => sink = emitted

\* C7: to_jsonl writes one line for each entry that satisfies the narrow
\* predicate and none for another entry, in ascending id order; what reaches
\* the sink is a prefix of these lines.
C7_TargetLinesAscending ==
    cmd = "jsonl" =>
        /\ Ascending(emitted)
        /\ \A i \in 1..Len(emitted) :
              /\ emitted[i] \in DOMAIN relations
              /\ filter_target_relations(relations[emitted[i]])
        /\ IsPrefix(sink, emitted)
        /\ (ret = "ok" =>
              Range(emitted) =
                  {k \in DOMAIN relations : filter_target_relations(relations[k])})

C7_Witness ==
    /\ cmd = "jsonl"
    /\ ret = "ok"
    /\ Len(emitted) >= 2
    /\ \E k \in DOMAIN relations :
          is_relation(relations[k]) /\ ~filter_target_relations(relations[k])
    /\ W1 \in DOMAIN relations

\* C8: the lines to_stats writes are in non-increasing order of count, no
\* boundary value is on two lines, and every count is at least 1.
C8_SortedByCount ==
    cmd = "stats" =>
        /\ \A i, j \in 1..Len(emitted) :
              i < j => (emitted[i][2] >= emitted[j][2] /\ emitted[i][1] # emitted[j][1])
        /\ \A i \in 1..Len(emitted) : emitted[i][2] >= 1

C8_Witness ==
    /\ cmd = "stats"
    /\ ret = "ok"
    /\ Len(emitted) = 2
    /\ emitted[1][2] > emitted[2][2]

C10_LoadTerminates == (pc = "scan") ~> (pc \in {"loaded", "reloaded", "exit"})

C10_Witness ==
    /\ pc = "loaded"
    /\ \E a, b \in DOMAIN relations :
          /\ a # b
          /\ a \in relations[b].refs
          /\ b \in relations[a].refs
    /\ \E k \in DOMAIN relations : W9 \in relations[k].refs

====
